---- MODULE Spec2Model ----
(***************************************************************************)
(* A model of the steganographer crate: the Bits value type, the           *)
(* SteganographWriter / SteganographReader streaming codec, the framing    *)
(* functions hide_bytes / reveal_bytes and encode_into_image.              *)
(***************************************************************************)
EXTENDS Integers, Sequences, FiniteSets, TLC

\* ------------------------------------------------------------------ bounds

\* Longest payload handed to the streaming writer or to hide_bytes.
MaxPayload == 4
\* Longest single buffer handed to one write / read call.
MaxChunk == 2
\* Longest carrier stream.
MaxCarrier == 34
\* Largest low 32-bit half of a symbolic (huge) payload length.
MaxBigLo == 3
\* Largest high half of a symbolic payload length (units of 2^32 bytes).
MaxBigHi == 1

\* ------------------------------------------------------- u8 / usize arithmetic

Min(a, b) == IF a < b THEN a ELSE b

\* p repeated cyclically to n bytes
Cyc(p, n) == [i \in 1..n |-> p[((i - 1) % Len(p)) + 1]]

RECURSIVE BitAnd(_, _)
\* a & b
BitAnd(a, b) ==
    IF a = 0 \/ b = 0 THEN 0
    ELSE (a % 2) * (b % 2) + 2 * BitAnd(a \div 2, b \div 2)

RECURSIVE BitOr(_, _)
\* a | b
BitOr(a, b) ==
    IF a = 0 THEN b
    ELSE IF b = 0 THEN a
    ELSE (IF (a % 2) + (b % 2) > 0 THEN 1 ELSE 0) + 2 * BitOr(a \div 2, b \div 2)

\* !a on a u8
BitNot8(a) == 255 - a

\* a << s on a u8: bits shifted past bit 7 are lost
Shl8(a, s) == (a * (2 ^ s)) % 256

\* a >> s
Shr(a, s) == a \div (2 ^ s)

\* ------------------------------------------------------------------- Bits

\* enum Bits { One = 1, Two = 2, Four = 4 }
Bits == {"One", "Two", "Four"}

\* `bits as u8` / `bits as usize`: the enum's discriminant
BitsAsInt(bits) ==
    CASE bits = "One" -> 1
      [] bits = "Two" -> 2
      [] bits = "Four" -> 4

\* a mask that is the top bit of the width only: 1 << (W - 1)
MaskWrongShift(bits) == Shl8(1, BitsAsInt(bits) - 1)

\* Bits::mask: (1 << *self as u8) - 1
Mask(bits) == Shl8(1, BitsAsInt(bits)) - 1

\* Bits::ratio: 8 / *self as usize
Ratio(bits) == 8 \div BitsAsInt(bits)

\* impl Default for Bits
DefaultBits == "One"

Ok(v) == [ok |-> TRUE, val |-> v, err |-> "none"]
Err(e, v) == [ok |-> FALSE, val |-> v, err |-> e]

\* a try_from that takes 8 for a width too
TryFromAcceptsEight(value) ==
    CASE value = 1 -> Ok("One")
      [] value = 2 -> Ok("Two")
      [] value = 4 -> Ok("Four")
      [] value = 8 -> Ok("Four")
      [] OTHER -> Err("WrongBits", value)

\* impl TryFrom<u8> for Bits
TryFrom(value) ==
    CASE value = 1 -> Ok("One")
      [] value = 2 -> Ok("Two")
      [] value = 4 -> Ok("Four")
      [] OTHER -> Err("WrongBits", value)

\* impl From<Bits> for u8
FromBits(bits) == BitsAsInt(bits)

\* ------------------------------------------------------------- the codec

\* (lo..hi).step_by(step)
StepBy(lo, hi, step) ==
    [i \in 1..((hi - lo + step - 1) \div step) |-> lo + (i - 1) * step]

\* Iterator::rev
Rev(s) == [i \in 1..Len(s) |-> s[Len(s) + 1 - i]]

\* (0..8).step_by(self.bits as usize).rev(): the shift of each carrier byte
Shifts(bits) == Rev(StepBy(0, 8, BitsAsInt(bits)))

\* an encoder that drops the carrier byte: (payload_byte >> shift) & mask
EncodeChunkKeepsNothing(buffer, payload_byte, bits) ==
    LET mask == Mask(bits)
        shifts == Shifts(bits)
    IN  [i \in 1..Min(Len(buffer), Len(shifts)) |->
            BitAnd(Shr(payload_byte, shifts[i]), mask)]

\* the encoder's map over buffer.iter().zip(shifts):
\*   byte & !mask | (payload_byte >> shift) & mask
EncodeChunk(buffer, payload_byte, bits) ==
    LET mask == Mask(bits)
        shifts == Shifts(bits)
    IN  [i \in 1..Min(Len(buffer), Len(shifts)) |->
            BitOr(BitAnd(buffer[i], BitNot8(mask)),
                  BitAnd(Shr(payload_byte, shifts[i]), mask))]

RECURSIVE FoldOr(_, _)
\* .fold(0u8, |acc, b| acc | b)
FoldOr(acc, s) ==
    IF s = <<>> THEN acc ELSE FoldOr(BitOr(acc, Head(s)), Tail(s))

\* a decoder that forgets the mask: byte << shift, or-ed together
DecodeChunkNoMask(buffer, bits) ==
    LET shifts == Shifts(bits)
    IN  FoldOr(0, [i \in 1..Min(Len(buffer), Len(shifts)) |->
                      Shl8(buffer[i], shifts[i])])

\* the decoder's map and fold over buffer.iter().zip(shifts):
\*   (byte & mask) << shift, or-ed together
DecodeChunk(buffer, bits) ==
    LET mask == Mask(bits)
        shifts == Shifts(bits)
    IN  FoldOr(0, [i \in 1..Min(Len(buffer), Len(shifts)) |->
                      Shl8(BitAnd(buffer[i], mask), shifts[i])])

\* Read::read_exact on a byte stream given by the bytes it has left: n bytes
\* or UnexpectedEof, the stream then being drained
ReadExact(stream, n) ==
    IF Len(stream) >= n
    THEN [ok |-> TRUE, buf |-> SubSeq(stream, 1, n),
          stream |-> SubSeq(stream, n + 1, Len(stream))]
    ELSE [ok |-> FALSE, buf |-> <<>>, stream |-> <<>>]

\* SteganographWriter::new(carrier, destination).bits(bits)
NewWriter(carrier, destination, bits) ==
    [carrier |-> carrier, destination |-> destination, bits |-> bits]

RECURSIVE WriteLoop(_, _, _)
\* the loop of SteganographWriter::write from payload byte i on
WriteLoop(w, payload, i) ==
    IF i > Len(payload) THEN [w |-> w, res |-> Ok(Len(payload))]
    ELSE LET rd == ReadExact(w.carrier, Ratio(w.bits))
         IN  IF ~rd.ok
             THEN [w |-> [w EXCEPT !.carrier = rd.stream],
                   res |-> Err("UnexpectedEof", 0)]
             ELSE WriteLoop(
                    [w EXCEPT !.carrier = rd.stream,
                              !.destination =
                                  @ \o EncodeChunk(rd.buf, payload[i], w.bits)],
                    payload, i + 1)

\* SteganographWriter::write
Write(w, payload) == WriteLoop(w, payload, 1)

\* a flush that takes one more chunk off the carrier
FlushReadsCarrier(w) ==
    [w |-> [w EXCEPT !.carrier = ReadExact(w.carrier, Ratio(w.bits)).stream],
     res |-> Ok(0)]

\* SteganographWriter::flush: destination.flush(), a no-op on a Vec
Flush(w) == [w |-> w, res |-> Ok(0)]

\* Write::write_all over SteganographWriter::write
WriteAll(w, buf) ==
    IF buf = <<>> THEN [w |-> w, res |-> Ok(0)]
    ELSE LET r == Write(w, buf)
         IN  IF r.res.ok THEN [w |-> r.w, res |-> Ok(0)] ELSE r

\* SteganographReader::new(source).bits(bits)
NewReader(source, bits) == [source |-> source, bits |-> bits]

RECURSIVE ReadLoop(_, _, _)
\* the loop of SteganographReader::read from buf[i] on; buf starts zeroed
ReadLoop(r, buf, i) ==
    IF i > Len(buf) THEN [r |-> r, buf |-> buf, res |-> Ok(Len(buf))]
    ELSE LET rd == ReadExact(r.source, Ratio(r.bits))
         IN  IF ~rd.ok
             THEN [r |-> [r EXCEPT !.source = rd.stream], buf |-> buf,
                   res |-> Err("UnexpectedEof", 0)]
             ELSE ReadLoop([r EXCEPT !.source = rd.stream],
                           [buf EXCEPT ![i] = DecodeChunk(rd.buf, r.bits)],
                           i + 1)

\* SteganographReader::read into a buffer of n bytes
Read(r, n) == ReadLoop(r, [i \in 1..n |-> 0], 1)

\* Read::read_exact over SteganographReader::read
ReaderReadExact(r, n) ==
    IF n = 0 THEN [r |-> r, buf |-> <<>>, res |-> Ok(0)]
    ELSE Read(r, n)

\* ------------------------------------------------------------ the framing

\* A usize on a 64-bit target, hi * 2^32 + lo with lo < 2^32
UsizeOf(n) == [hi |-> 0, lo |-> n]

\* a <= b on usize values
UsizeLeq(a, b) == a.hi < b.hi \/ (a.hi = b.hi /\ a.lo <= b.lo)

\* `payload.len() as u32`: the low 32 bits of the usize
AsU32(u) == u.lo

\* BigEndian::write_u32 into a [u8; 4]
U32ToBE(n) ==
    <<(n \div 16777216) % 256, (n \div 65536) % 256, (n \div 256) % 256, n % 256>>

\* BigEndian::read_u32 from a [u8; 4]
BEToU32(b) == b[1] * 16777216 + b[2] * 65536 + b[3] * 256 + b[4]

\* hide_bytes: the Result, with the local Vec `result` the writer wrote to and
\* what is left of the carrier
HideBytes(payload, carrier, bits) ==
    LET w0 == NewWriter(carrier, <<>>, bits)
        r1 == WriteAll(w0, U32ToBE(AsU32(UsizeOf(Len(payload)))))
        r2 == WriteAll(r1.w, payload)
        last == IF r1.res.ok THEN r2 ELSE r1
    IN  [res |-> IF last.res.ok THEN Ok(last.w.destination) ELSE last.res,
         destination |-> last.w.destination,
         carrier |-> last.w.carrier]

\* reveal_bytes
RevealBytes(stream, bits) ==
    LET r0 == NewReader(stream, bits)
        r1 == ReaderReadExact(r0, 4)
    IN  IF ~r1.res.ok THEN r1.res
        ELSE LET size == BEToU32(r1.buf)
                 r2 == ReaderReadExact(r1.r, size)
             IN  IF r2.res.ok THEN Ok(r2.buf) ELSE r2.res

\* hide_bytes on vec![byte; len] with len given as a usize and the endless
\* carrier io::repeat(c): the Vec returned is head \o (unit repeated count times)
HideBytesBig(payload, c, bits) ==
    LET w0 == NewWriter(Cyc(<<c>>, 4 * Ratio(bits)), <<>>, bits)
        r1 == WriteAll(w0, U32ToBE(AsU32(payload.len)))
    IN  Ok([head |-> r1.w.destination,
            unit |-> EncodeChunk(Cyc(<<c>>, Ratio(bits)), payload.byte, bits),
            count |-> payload.len])

\* reveal_bytes on a Cursor over such a Vec: vec![byte; len] or the error
RevealBytesBig(cloaked, bits) ==
    LET r1 == ReaderReadExact(NewReader(cloaked.head, bits), 4)
    IN  IF ~r1.res.ok THEN r1.res
        ELSE LET size == UsizeOf(BEToU32(r1.buf))
             IN  IF UsizeLeq(size, cloaked.count)
                 THEN Ok([len |-> size,
                          byte |-> IF size.lo = 0 THEN 0
                                   ELSE DecodeChunk(cloaked.unit, bits)])
                 ELSE Err("UnexpectedEof", 0)

\* `a - b` on usize: the difference, or the overflow
UsizeSub(a, b) ==
    IF a >= b THEN [overflow |-> FALSE, val |-> a - b]
    ELSE [overflow |-> TRUE, val |-> b - a]

\* encode_into_image on pixel data `pixels`; `exists` says the output file is
\* there already, `build` is debug (overflow checks) or release (wrapping)
EncodeIntoImage(pixels, payload, exists, replace, build) ==
    IF exists /\ ~replace
    THEN [res |-> Err("AlreadyExists", 0), hid |-> FALSE, out |-> <<>>]
    ELSE LET h == HideBytes(payload, pixels, "Two")
         IN  IF ~h.res.ok
             THEN [res |-> h.res, hid |-> FALSE, out |-> <<>>]
             ELSE LET data == h.res.val
                      extra == UsizeSub(Len(payload), Len(data))
                  IN  IF extra.overflow /\ build = "debug"
                      THEN [res |-> Err("panic: attempt to subtract with overflow", 0),
                            hid |-> TRUE, out |-> <<>>]
                      \* release: extra is 2^64 - extra.val, and reserve_exact
                      \* fails when len + extra does not fit a usize
                      ELSE IF extra.overflow /\ Len(data) >= extra.val
                      THEN [res |-> Err("panic: capacity overflow", 0),
                            hid |-> TRUE, out |-> <<>>]
                      ELSE [res |-> Ok(0), hid |-> TRUE,
                            out |-> data \o h.carrier]

\* ------------------------------------------------------------- input sets

\* the cloaked bytes of the SteganographReader example
CloakedExample ==
    <<224, 227, 225, 226, 224, 225, 225, 227,
      224, 224, 225, 226, 225, 227, 227, 227>>

\* contents of the carrier streams tried
CarrierPatterns == {<<224>>, <<255, 0, 165>>, CloakedExample}

\* contents of the payloads tried
PayloadPatterns == {<<5, 14, 7, 3>>, <<54, 23, 6, 127>>, <<255, 0, 170, 129>>}

Carriers == {Cyc(p, n) : p \in CarrierPatterns, n \in 0..MaxCarrier}

\* -------------------------------------------------------------- the state

VARIABLES
    writer,     \* a SteganographWriter: carrier (bytes left), destination, bits
    wlog,       \* history of the writer: its calls, arguments and results
    reader,     \* a SteganographReader: source (bytes left), bits
    rlog,       \* history of the reader
    conv,       \* a Bits conversion: the raw u8, the Bits, what was derived
    frame,      \* a hide_bytes / reveal_bytes run: arguments and results
    big,        \* the same on a payload whose length is given as a usize
    img         \* an encode_into_image run: arguments and result

vars == <<writer, wlog, reader, rlog, conv, frame, big, img>>

streamVars == <<writer, wlog, reader, rlog>>

NewWriterLog(carrier, pattern) ==
    [carrier0 |-> carrier, pattern |-> pattern, payload |-> <<>>, ok |-> TRUE,
     op |-> "new", arg |-> <<>>, res |-> Ok(0), before |-> carrier]

NewReaderLog(source) ==
    [source0 |-> source, produced |-> <<>>, ok |-> TRUE,
     op |-> "new", arg |-> 0, res |-> Ok(0), before |-> source, buf |-> <<>>]

\* no object constructed
None == [none |-> TRUE]

\* Either a writer is constructed over a carrier and an empty Vec, or a
\* reader over a source; the two objects share nothing.
InitStream ==
    \/ \E c \in Carriers, bits \in Bits, pattern \in PayloadPatterns :
        /\ writer = NewWriter(c, <<>>, bits)
        /\ wlog = NewWriterLog(c, pattern)
        /\ reader = None
        /\ rlog = None
    \/ \E c \in Carriers, bits \in Bits :
        /\ writer = None
        /\ wlog = None
        /\ reader = NewReader(c, bits)
        /\ rlog = NewReaderLog(c)

\* writer.write(chunk), the chunk being the next k bytes of the payload
WriterWrite ==
    \E k \in 0..MaxChunk :
        /\ writer # None
        /\ Len(wlog.payload) + k <= MaxPayload
        /\ LET from == Len(wlog.payload)
               chunk == SubSeq(Cyc(wlog.pattern, from + k), from + 1, from + k)
               r == Write(writer, chunk)
           IN  /\ writer' = r.w
               /\ wlog' = [wlog EXCEPT
                      !.payload = IF r.res.ok THEN @ \o chunk ELSE @,
                      !.ok = @ /\ r.res.ok,
                      !.op = "write", !.arg = chunk, !.res = r.res,
                      !.before = writer.carrier]
        /\ UNCHANGED <<reader, rlog, conv, frame, big, img>>

\* writer.flush()
WriterFlush ==
    /\ writer # None
    /\ LET r == Flush(writer)
       IN  /\ writer' = r.w
           /\ wlog' = [wlog EXCEPT
                  !.ok = @ /\ r.res.ok,
                  !.op = "flush", !.arg = <<>>, !.res = r.res,
                  !.before = writer.carrier]
    /\ UNCHANGED <<reader, rlog, conv, frame, big, img>>

\* reader.read(buf) with a buffer of n bytes
ReaderRead ==
    \E n \in 0..MaxChunk :
        /\ reader # None
        /\ Len(rlog.produced) + n <= MaxPayload
        /\ LET r == Read(reader, n)
           IN  /\ reader' = r.r
               /\ rlog' = [rlog EXCEPT
                      !.produced = IF r.res.ok THEN @ \o r.buf ELSE @,
                      !.ok = @ /\ r.res.ok,
                      !.op = "read", !.arg = n, !.res = r.res,
                      !.before = reader.source, !.buf = r.buf]
        /\ UNCHANGED <<writer, wlog, conv, frame, big, img>>

NextStream == WriterWrite \/ WriterFlush \/ ReaderRead

NoStream == writer = None /\ wlog = None /\ reader = None /\ rlog = None

Init ==
    /\ InitStream
    /\ conv = None /\ frame = None /\ big = None /\ img = None

Next == NextStream

Spec == Init /\ [][Next]_vars

\* ----------------------------------------------------- Bits conversions

\* an Option: <<>> is None and <<v>> is Some(v)
Some(v) == <<v>>

InitBits ==
    /\ NoStream /\ frame = None /\ big = None /\ img = None
    /\ conv = [value |-> <<>>, bits |-> Err("none", 0),
               raw |-> <<>>, mask |-> <<>>, ratio |-> <<>>]

\* Bits::try_from(value)
CallTryFrom ==
    \E value \in 0..255 :
        /\ conv.value = <<>> /\ ~conv.bits.ok
        /\ conv' = [conv EXCEPT !.value = Some(value), !.bits = TryFrom(value)]
        /\ UNCHANGED <<streamVars, frame, big, img>>

\* Bits::default()
CallDefault ==
    /\ conv.value = <<>> /\ ~conv.bits.ok
    /\ conv' = [conv EXCEPT !.bits = Ok(DefaultBits)]
    /\ UNCHANGED <<streamVars, frame, big, img>>

\* u8::from(bits)
CallFrom ==
    /\ conv.bits.ok
    /\ conv' = [conv EXCEPT !.raw = Some(FromBits(conv.bits.val))]
    /\ UNCHANGED <<streamVars, frame, big, img>>

\* bits.mask()
CallMask ==
    /\ conv.bits.ok
    /\ conv' = [conv EXCEPT !.mask = Some(Mask(conv.bits.val))]
    /\ UNCHANGED <<streamVars, frame, big, img>>

\* bits.ratio()
CallRatio ==
    /\ conv.bits.ok
    /\ conv' = [conv EXCEPT !.ratio = Some(Ratio(conv.bits.val))]
    /\ UNCHANGED <<streamVars, frame, big, img>>

NextBits == CallTryFrom \/ CallDefault \/ CallFrom \/ CallMask \/ CallRatio

SpecBits == InitBits /\ [][NextBits]_vars

\* ------------------------------------------------ hide_bytes / reveal_bytes

Payloads == {Cyc(p, n) : p \in PayloadPatterns, n \in 0..MaxPayload}

InitFrame ==
    /\ NoStream /\ conv = None /\ big = None /\ img = None
    /\ \E payload \in Payloads, carrier \in Carriers, bits \in Bits :
        frame = [payload |-> payload, carrier |-> carrier, bits |-> bits,
                 stage |-> "new", hidden |-> Err("none", 0),
                 destination |-> <<>>, cloaked |-> <<>>,
                 revealed |-> Err("none", 0)]

\* hide_bytes(&payload, carrier, bits)
CallHideBytes ==
    /\ frame # None /\ frame.stage = "new"
    /\ LET h == HideBytes(frame.payload, frame.carrier, frame.bits)
       IN  frame' = [frame EXCEPT !.stage = "hidden", !.hidden = h.res,
                                  !.destination = h.destination]
    /\ UNCHANGED <<streamVars, conv, big, img>>

\* reveal_bytes(reader, bits) on the first k bytes of what hide_bytes returned
CallRevealBytes ==
    /\ frame # None /\ frame.stage = "hidden" /\ frame.hidden.ok
    /\ \E k \in 0..Len(frame.hidden.val) :
        LET cloaked == SubSeq(frame.hidden.val, 1, k)
        IN  frame' = [frame EXCEPT !.stage = "revealed", !.cloaked = cloaked,
                                   !.revealed = RevealBytes(cloaked, frame.bits)]
    /\ UNCHANGED <<streamVars, conv, big, img>>

NextFrame == CallHideBytes \/ CallRevealBytes

SpecFrame == InitFrame /\ [][NextFrame]_vars

\* --------------------------------------- payloads of 2^32 bytes and more

\* bytes that fill the payload and the carrier
FillBytes == {5, 255}
RepeatBytes == {224, 255}

InitBig ==
    /\ NoStream /\ conv = None /\ frame = None /\ img = None
    /\ \E hi \in 0..MaxBigHi, lo \in 0..MaxBigLo, byte \in FillBytes,
          c \in RepeatBytes, bits \in Bits :
        big = [payload |-> [len |-> [hi |-> hi, lo |-> lo], byte |-> byte],
               c |-> c, bits |-> bits, stage |-> "new",
               hidden |-> Err("none", 0), revealed |-> Err("none", 0)]

\* hide_bytes(&vec![byte; len], io::repeat(c), bits)
CallHideBytesBig ==
    /\ big # None /\ big.stage = "new"
    /\ big' = [big EXCEPT !.stage = "hidden",
                          !.hidden = HideBytesBig(big.payload, big.c, big.bits)]
    /\ UNCHANGED <<streamVars, conv, frame, img>>

\* reveal_bytes(Cursor::new(cloaked), bits) on what hide_bytes returned
CallRevealBytesBig ==
    /\ big # None /\ big.stage = "hidden" /\ big.hidden.ok
    /\ big' = [big EXCEPT !.stage = "revealed",
                          !.revealed = RevealBytesBig(big.hidden.val, big.bits)]
    /\ UNCHANGED <<streamVars, conv, frame, img>>

NextBig == CallHideBytesBig \/ CallRevealBytesBig

SpecBig == InitBig /\ [][NextBig]_vars

\* ---------------------------------------------------- encode_into_image

InitImage ==
    /\ NoStream /\ conv = None /\ frame = None /\ big = None
    /\ \E payload \in Payloads, pixels \in Carriers,
          exists \in BOOLEAN, replace \in BOOLEAN, build \in {"debug", "release"} :
        img = [pixels |-> pixels, payload |-> payload, exists |-> exists,
               replace |-> replace, build |-> build, stage |-> "new",
               res |-> Err("none", 0), hid |-> FALSE, out |-> <<>>]

\* encode_into_image(image, data, output, replace)
CallEncodeIntoImage ==
    /\ img # None /\ img.stage = "new"
    /\ LET e == EncodeIntoImage(img.pixels, img.payload, img.exists,
                                img.replace, img.build)
       IN  img' = [img EXCEPT !.stage = "done", !.res = e.res,
                              !.hid = e.hid, !.out = e.out]
    /\ UNCHANGED <<streamVars, conv, frame, big>>

NextImage == CallEncodeIntoImage

SpecImage == InitImage /\ [][NextImage]_vars

\* ------------------------------------------------------------- the claims

\* the width, mask and ratio the claims speak of, as plain arithmetic
WidthOf(bits) == CASE bits = "One" -> 1 [] bits = "Two" -> 2 [] bits = "Four" -> 4
PlainRatio(bits) == 8 \div WidthOf(bits)

\* x & ~mask(W), the bits above the mask
HighBits(x, bits) == x - (x % (2 ^ WidthOf(bits)))

\* x & mask(W), the bits under the mask
LowBits(x, bits) == x % (2 ^ WidthOf(bits))

RECURSIVE Reassembled(_, _, _)
\* the sum over i >= from of (C_i & mask) << (8 - W * (i + 1)), C_i = group[i + 1]
Reassembled(group, bits, from) ==
    IF from >= Len(group) THEN 0
    ELSE LowBits(group[from + 1], bits) * (2 ^ (8 - WidthOf(bits) * (from + 1)))
         + Reassembled(group, bits, from + 1)

\* the i-th group of ratio bytes of a stream
Group(stream, i, bits) ==
    SubSeq(stream, (i - 1) * PlainRatio(bits) + 1, i * PlainRatio(bits))

\* C2: every byte the writer has emitted to its destination, the i-th one,
\* equals the i-th byte of the carrier on all bits above the mask, whether or
\* not the write that emitted it went on to succeed.
C2_HighBitsPreserved ==
    writer # None =>
        /\ Len(writer.destination) <= Len(wlog.carrier0)
        /\ \A i \in 1..Len(writer.destination) :
            HighBits(writer.destination[i], writer.bits)
                = HighBits(wlog.carrier0[i], writer.bits)

\* C2 witness: a write has emitted a byte that differs from its template byte
\* (in the low bits) next to template bytes with different high bits.
C2_Witness ==
    /\ writer # None
    /\ wlog.op = "write" /\ wlog.res.ok
    /\ \E i, j \in 1..Len(writer.destination) :
        /\ writer.destination[i] # wlog.carrier0[i]
        /\ HighBits(wlog.carrier0[i], writer.bits)
               # HighBits(wlog.carrier0[j], writer.bits)

\* C4: after a successful read, byte j of the buffer is the sum of the low
\* bits of the j-th group of ratio source bytes, the first read in the most
\* significant place; the cloaked example decodes to 54, 23, 6, 127.
C4_DecoderReassembly ==
    (reader # None /\ rlog.op = "read" /\ rlog.res.ok) =>
        /\ Len(rlog.buf) = rlog.arg
        /\ \A j \in 1..rlog.arg :
            rlog.buf[j] = Reassembled(Group(rlog.before, j, reader.bits),
                                      reader.bits, 0)
        /\ (rlog.source0 = CloakedExample /\ reader.bits = "Two"
                /\ Len(rlog.produced) = 4)
            => rlog.produced = <<54, 23, 6, 127>>

\* C4 witness: the cloaked example has been read to its end with two bits.
C4_Witness ==
    /\ reader # None
    /\ rlog.source0 = CloakedExample /\ reader.bits = "Two"
    /\ rlog.op = "read" /\ rlog.res.ok /\ rlog.arg > 0
    /\ rlog.produced = <<54, 23, 6, 127>>

\* C8: while every call has succeeded, the carrier bytes consumed, the bytes
\* written to the destination and ratio times the payload bytes accepted are
\* equal, a write returns the length of its input, and the output is that of
\* one write of the whole payload; the carrier never moves backwards and a
\* flush leaves it where it was; the same accounting holds for the reader.
C8_CursorAccounting ==
    /\ writer # None =>
        /\ Len(writer.carrier) <= Len(wlog.before)
        /\ wlog.op = "flush" => writer.carrier = wlog.before
        /\ wlog.ok =>
            LET consumed == Len(wlog.carrier0) - Len(writer.carrier)
            IN  /\ consumed = Len(writer.destination)
                /\ consumed = PlainRatio(writer.bits) * Len(wlog.payload)
                /\ writer.carrier
                       = SubSeq(wlog.carrier0, consumed + 1, Len(wlog.carrier0))
                /\ wlog.op = "write" => wlog.res = Ok(Len(wlog.arg))
                /\ writer.destination
                       = Write(NewWriter(wlog.carrier0, <<>>, writer.bits),
                               wlog.payload).w.destination
    /\ reader # None =>
        /\ Len(reader.source) <= Len(rlog.before)
        /\ rlog.ok =>
            LET consumed == Len(rlog.source0) - Len(reader.source)
            IN  /\ consumed = PlainRatio(reader.bits) * Len(rlog.produced)
                /\ reader.source
                       = SubSeq(rlog.source0, consumed + 1, Len(rlog.source0))
                /\ rlog.op = "read" => rlog.res = Ok(rlog.arg)
                /\ rlog.produced
                       = Read(NewReader(rlog.source0, reader.bits),
                              Len(rlog.produced)).buf

\* C8 witness: a payload of three bytes or more went through several
\* successful writes and a flush came last.
C8_Witness ==
    /\ writer # None /\ wlog.ok
    /\ Len(wlog.payload) >= 3
    /\ wlog.op = "flush"
    /\ Len(writer.carrier) > 0

\* C6: try_from succeeds exactly on 1, 2 and 4, fails on every other value
\* with WrongBits carrying that value, and u8::from gives the value back.
C6_BitWidthConstruction ==
    (conv # None /\ conv.value # <<>>) =>
        LET v == conv.value[1]
        IN  /\ conv.bits.ok <=> v \in {1, 2, 4}
            /\ ~conv.bits.ok => conv.bits = Err("WrongBits", v)
            /\ conv.raw # <<>> => conv.raw = <<v>>

\* C6 witness: a value was parsed and converted back.
C6_Witness ==
    /\ conv # None
    /\ conv.value = <<4>> /\ conv.bits.ok /\ conv.raw = <<4>>

\* C7: mask is (1 << W) - 1 and ratio is 8 / W: 1 and 8 for One, 3 and 4 for
\* Two, 15 and 2 for Four, so W * ratio = 8; the default width is One.
C7_MaskRatioTable ==
    (conv # None /\ conv.bits.ok) =>
        LET W == WidthOf(conv.bits.val)
        IN  /\ conv.mask # <<>> =>
                /\ conv.mask[1] = (2 ^ W) - 1
                /\ conv.mask[1] = CASE W = 1 -> 1 [] W = 2 -> 3 [] W = 4 -> 15
            /\ conv.ratio # <<>> =>
                /\ conv.ratio[1] = CASE W = 1 -> 8 [] W = 2 -> 4 [] W = 4 -> 2
                /\ W * conv.ratio[1] = 8
            /\ conv.value = <<>> => W = 1

\* C7 witness: mask and ratio of the width four have been computed.
C7_Witness ==
    /\ conv # None /\ conv.bits.ok
    /\ conv.bits.val = "Four" /\ conv.mask = <<15>> /\ conv.ratio = <<2>>

\* the u32 hidden in the first 4 * ratio bytes of a cloaked buffer
HiddenLength(head, bits) ==
    BEToU32([k \in 1..4 |-> Reassembled(Group(head, k, bits), bits, 0)])

\* two payloads vec![byte; len] are the same bytes
SamePayload(a, b) ==
    /\ a.len = b.len
    /\ a.len = UsizeOf(0) \/ a.byte = b.byte

\* C1: whenever reveal_bytes has run on what hide_bytes returned for a payload
\* over a carrier that is long enough (here an endless one), both succeeded
\* and the payload revealed is the payload hidden.
C1_RoundTrip ==
    (big # None /\ big.stage = "revealed") =>
        /\ big.hidden.ok
        /\ big.revealed.ok
        /\ SamePayload(big.revealed.val, big.payload)

\* The round trip for payloads of at most MaxPayload bytes, every width and
\* every carrier that is long enough: reveal_bytes gives the payload back.
RoundTripOfShortPayloads ==
    (frame # None /\ frame.stage # "new"
        /\ Len(frame.carrier)
               >= (4 + Len(frame.payload)) * PlainRatio(frame.bits)) =>
        /\ frame.hidden.ok
        /\ (frame.stage = "revealed" /\ frame.cloaked = frame.hidden.val) =>
               frame.revealed = Ok(frame.payload)

\* C3: the buffer hide_bytes returns for a payload of N bytes holds
\* (4 + N) * ratio bytes, its first 4 * ratio bytes hide N as a big-endian
\* u32 and the N groups of ratio bytes after them hide the payload bytes.
C3_FramedLayout ==
    (big # None /\ big.stage # "new" /\ big.hidden.ok) =>
        LET out == big.hidden.val
        IN  /\ Len(out.head) = 4 * PlainRatio(big.bits)
            /\ Len(out.unit) = PlainRatio(big.bits)
            /\ out.count = big.payload.len
            /\ Reassembled(out.unit, big.bits, 0) = big.payload.byte
            /\ UsizeOf(HiddenLength(out.head, big.bits)) = big.payload.len

\* The framed layout for payloads of at most MaxPayload bytes, with the
\* example of hide_bytes.
FramedLayoutOfShortPayloads ==
    (frame # None /\ frame.stage # "new" /\ frame.hidden.ok) =>
        LET out == frame.hidden.val
            N == Len(frame.payload)
        IN  /\ Len(out) = (4 + N) * PlainRatio(frame.bits)
            /\ HiddenLength(out, frame.bits) = N
            /\ \A j \in 1..N :
                Reassembled(Group(out, 4 + j, frame.bits), frame.bits, 0)
                    = frame.payload[j]
            /\ (frame.payload = <<5, 14, 7, 3>> /\ frame.bits = "Four"
                    /\ frame.carrier = Cyc(<<224>>, 16))
                => out = <<224, 224, 224, 224, 224, 224, 224, 228,
                           224, 229, 224, 238, 224, 231, 224, 227>>

\* C5: with a carrier shorter than (4 + len) * ratio, hide_bytes fails with
\* UnexpectedEof, returns no buffer and has emitted nothing to the writer's
\* destination; reveal_bytes on a stream shorter than its declared length
\* needs fails with UnexpectedEof and returns no payload.
C5_InsufficientCarrier ==
    frame # None =>
        /\ (frame.stage # "new"
              /\ Len(frame.carrier)
                     < (4 + Len(frame.payload)) * PlainRatio(frame.bits)) =>
            /\ frame.hidden = Err("UnexpectedEof", 0)
            /\ frame.destination = <<>>
        /\ (frame.stage = "revealed"
              /\ Len(frame.cloaked)
                     < (4 + Len(frame.payload)) * PlainRatio(frame.bits)) =>
            frame.revealed = Err("UnexpectedEof", 0)

\* Short carriers without the clause on the destination: both functions
\* fail with UnexpectedEof, and what the writer emitted before is whole chunks.
ShortCarrierFails ==
    frame # None =>
        /\ (frame.stage # "new"
              /\ Len(frame.carrier)
                     < (4 + Len(frame.payload)) * PlainRatio(frame.bits)) =>
            /\ frame.hidden = Err("UnexpectedEof", 0)
            /\ Len(frame.destination) % PlainRatio(frame.bits) = 0
            /\ Len(frame.destination) <= Len(frame.carrier)
        /\ (frame.stage = "revealed"
              /\ Len(frame.cloaked)
                     < (4 + Len(frame.payload)) * PlainRatio(frame.bits)) =>
            frame.revealed = Err("UnexpectedEof", 0)

\* C9: the u32 hidden in front of the payload is the length of the payload,
\* and reveal_bytes reads back that many bytes.
C9_LengthPrefixFidelity ==
    (big # None /\ big.stage # "new" /\ big.hidden.ok) =>
        /\ HiddenLength(big.hidden.val.head, big.bits) = big.payload.len.lo
        /\ big.payload.len.hi = 0
        /\ (big.stage = "revealed" /\ big.revealed.ok) =>
               big.revealed.val.len = big.payload.len

\* C10: whenever hide_bytes succeeded inside encode_into_image, the operation
\* went on past the subtraction and the buffer encoded has the length of the
\* carrier's pixel data.
C10_ReserveDoesNotUnderflow ==
    (img # None /\ img.stage = "done" /\ img.hid) =>
        /\ img.res.ok
        /\ Len(img.out) = Len(img.pixels)

====
